---- MODULE Spec2Model ----
(***************************************************************************)
(* Model of SubprocessManager (src/subprocess_manager.py): the registry of *)
(* child MCP server processes, the initialize handshake, the stdout reader *)
(* tasks and the correlation of tools/call requests with their responses.  *)
(*                                                                         *)
(* The manager runs on one asyncio event loop: a coroutine runs without    *)
(* interruption until it awaits something that really suspends.  Awaiting  *)
(* _send_request, _send_notification, _initialize_connection or            *)
(* _handle_response never suspends (their bodies await nothing that        *)
(* blocks), so start_server is one step, stop_server is two steps split at *)
(* asyncio.sleep(0.5), and execute_tool is two steps split at              *)
(* asyncio.wait_for.  Child processes run in parallel with the loop: they  *)
(* may write a line or exit at any moment.                                 *)
(*                                                                         *)
(* _read_output reads its pipe one character at a time and acts on whole   *)
(* lines only; the model hands it one line per step.  _read_errors only    *)
(* logs and is left out.  Request ids are uuid4 strings: every call has    *)
(* its own, modelled by the number of the call.                            *)
(*                                                                         *)
(* On top of the manager, DynamicToolRegistry (src/dynamic_registry.py)    *)
(* and refresh_tools (src/main.py): check_server_requirements, the         *)
(* discovery pass discover_all_tools, which is one step from each of its   *)
(* suspensions (the sleep after a start, the await of list_tools, the      *)
(* sleep between attempts, cleanup()) to the next, and the tables it       *)
(* fills.  The servers declare at most one environment variable; a tool    *)
(* listing is the set of its tools' names, and tool_schemas holds for each *)
(* server the names of the tools it has a schema for.  The manager has no  *)
(* list_tools method in the sources; what the call gives the pass is       *)
(* taken from the protocol: a listing, an error answer, or an exception.   *)
(*                                                                         *)
(* The manager's other callers: the two wrappers a tool is invoked through *)
(* (proxy_tool of src/main.py, which calls execute_tool at once, and       *)
(* tool_wrapper of src/dynamic_registry.py, which starts an absent server  *)
(* first), and the handler of GET /servers/tools                           *)
(* (src/api/routers/servers.py), which queries the stdio servers one after *)
(* the other and ends with cleanup() on the same global manager.           *)
(***************************************************************************)
EXTENDS Integers, Sequences, FiniteSets, TLC

\* ------------------------------------------------------------------ bounds
Names == {"a", "a_b"}        \* logical server names used by the callers
MaxSpawn == 2                \* child processes ever spawned (pids 1..MaxSpawn)
MaxStarts == 2               \* start_server invocations
MaxStops == 2                \* direct stop_server invocations
MaxCalls == 2                \* execute_tool invocations (request id = call number)
MaxOut == 1                  \* unread lines buffered in one child's stdout pipe
MaxVal == 2                  \* distinct argument / result payloads 1..MaxVal
MaxRuns == 2                 \* discover_all_tools invocations, one after the other

Pids == 1..MaxSpawn
StartIds == 1..MaxStarts
StopIds == 1..MaxStops
CallIds == 1..MaxCalls
Vals == 1..MaxVal
NoProc == 0
NoId == 0
\* an id that is a JSON number, not a string: never the id of a request
NumId == 99
InitBase == 100
\* the uuid4 of the initialize request sent to child p: distinct from every call id
InitId(p) == InitBase + p

VARIABLES
    processes,         \* self.processes: insertion-ordered dict, a sequence of [name, proc]
    pending_requests,  \* self.pending_requests: the set of request ids that have a future
    proc,              \* pid -> [st, name, sigfail, ok]: the OS processes spawned so far
    nextPid,           \* next pid to hand out
    out,               \* pid -> unread lines of the child's stdout
    transcript,        \* pid -> what was written to the child's stdin, and when the
                       \*        initialize response was read, in order
    reader,            \* pid -> the _read_output task created by the start that spawned pid
    starts,            \* start_server invocations
    stops,             \* stop_server invocations
    cleanup,           \* the cleanup() invocation
    call,              \* execute_tool invocations, with their future
    config,            \* registry.config["servers"]: name -> what the server's
                       \*        "environment" section declares
    environ,           \* os.environ: the state of the variable the servers declare
    tool_map,          \* registry.tool_map: tool name -> server name
    discovered_tools,  \* registry.discovered_tools: server name -> its tool listing
    tool_schemas,      \* registry.tool_schemas: server name -> the tools it holds a
                       \*        schema for
    pass,              \* the discover_all_tools() invocation, alone or inside
                       \*        refresh_tools()
    api                \* the GET /servers/tools requests of the API router

\* the state of the manager's callers: the DynamicToolRegistry with its
\* discovery pass, and the requests of the API router
regVars == <<config, environ, tool_map, discovered_tools, tool_schemas, pass, api>>

vars == <<processes, pending_requests, proc, nextPid, out, transcript, reader,
          starts, stops, cleanup, call, config, environ, tool_map,
          discovered_tools, tool_schemas, pass, api>>

\* ------------------------------------------------- the processes dictionary
\* `server_name in self.processes`
\* mutation: the membership test always answers "absent"
InMapNever(ps, n) == FALSE
InMap(ps, n) == \E i \in 1..Len(ps) : ps[i].name = n

\* self.processes[server_name]
Lookup(ps, n) == ps[CHOOSE i \in 1..Len(ps) : ps[i].name = n].proc

\* self.processes[server_name] = MCPProcess(...): a new key goes last, an
\* existing key keeps its place
Put(ps, n, p) ==
    IF InMap(ps, n)
    THEN [i \in 1..Len(ps) |-> IF ps[i].name = n THEN [name |-> n, proc |-> p] ELSE ps[i]]
    ELSE Append(ps, [name |-> n, proc |-> p])

\* del self.processes[server_name]  (the caller handles the KeyError case)
Del(ps, n) == SelectSeq(ps, LAMBDA e : e.name # n)

\* list(self.processes.keys())
Keys(ps) == [i \in 1..Len(ps) |-> ps[i].name]

\* ------------------------------------------------------------ return values
\* values are pairs <<kind, number>> so that any two can be compared
NoValue == <<"none", 0>>
FutPending == <<"pending", 0>>
FutCancelled == <<"cancelled", 0>>
NotRunning == <<"error_not_running", 0>>       \* {"error": "Server ... not running"}
TimeoutError == <<"error_timeout", 0>>         \* {"error": "Tool execution timeout"}
InvalidFormat == <<"error_invalid_format", 0>> \* {"error": "Invalid response format"}
RaisedKeyError == <<"raise_KeyError", 0>>      \* execute_tool raised KeyError
RaisedWriteError == <<"raise_write", 0>>       \* execute_tool raised the pipe's write error

\* what _handle_response passes to future.set_result for a message
Payload(m) ==
    IF m.kind = "error" THEN <<"error", m.val>>
    ELSE IF m.kind = "result" THEN <<"result", m.val>>
    ELSE InvalidFormat

\* --------------------------------------------------------------------- Init
\* no server anywhere
NoServer == ""

\* discovered_tools has no key for the server
NoListing == [kind |-> "absent", tools |-> {}]

\* the tool names the servers' listings are made of
ToolNames == {"t", "b_t"}

\* an empty tool_map
NoTools == [t \in ToolNames |-> NoServer]

\* no discovery pass is running or has run.  st is where the pass is
\* suspended, idx the server it is at, attempt the list_tools attempt, errors
\* its discovery_errors; called (the servers it has called start_server for),
\* pre (tool_map when the pass was called), inflight (the execute_tool calls
\* waiting at that moment) and runs (passes so far) are records of the past
NoPass ==
    [st |-> "idle", idx |-> 0, attempt |-> 0, errors |-> <<>>, called |-> {},
     refresh |-> FALSE, pre |-> NoTools, inflight |-> {}, runs |-> 0]

\* the GET /servers/tools requests that are made
Requests == {1, 2}

\* the response of a request that has not returned
NoResponse == [servers |-> <<>>, total_servers |-> 0, total_tools |-> 0]

\* no request yet.  st is where the handler is suspended, idx the server it
\* is at, pid the child it has started for that server, servers and
\* total_tools its local variables servers_with_tools and total_tools, cl its
\* call of cleanup(), resp what it has returned
NoApi ==
    [st |-> "idle", idx |-> 0, pid |-> NoProc, servers |-> <<>>, total_tools |-> 0,
     cl |-> [st |-> "idle", todo |-> <<>>, pinfo |-> NoProc], resp |-> NoResponse]

\* DynamicToolRegistry.__init__: empty dictionaries; no request to the API
InitRegistry ==
    /\ tool_map = NoTools
    /\ discovered_tools = [n \in Names |-> NoListing]
    /\ tool_schemas = [n \in Names |-> {}]
    /\ pass = NoPass
    /\ api = [r \in Requests |-> NoApi]

\* SubprocessManager.__init__, and the manager's callers before any call
InitManager ==
    /\ processes = <<>>
    /\ pending_requests = {}
    /\ proc = [p \in Pids |-> [st |-> "none", name |-> "a", sigfail |-> FALSE, ok |-> FALSE]]
    /\ nextPid = 1
    /\ out = [p \in Pids |-> <<>>]
    /\ transcript = [p \in Pids |-> <<>>]
    /\ reader = [p \in Pids |-> [st |-> "none", on |-> NoProc]]
    /\ starts = [k \in StartIds |-> [st |-> "idle", name |-> "a", res |-> FALSE, good |-> FALSE,
                                    conc |-> FALSE]]
    /\ stops = [k \in StopIds |-> [st |-> "idle", name |-> "a", pinfo |-> NoProc]]
    /\ cleanup = [st |-> "idle", todo |-> <<>>, pinfo |-> NoProc]
    /\ call = [c \in CallIds |-> [st |-> "idle", name |-> "a", to |-> NoProc,
                                  fut |-> NoValue, ret |-> NoValue,
                                  via |-> "execute_tool"]]

\* the manager with a registry whose servers declare no environment variable
Init ==
    /\ InitManager
    /\ InitRegistry
    /\ config = [n \in Names |-> "none"]
    /\ environ = "unset"

\* ------------------------------------------------------------ child process
\* a child may exit on its own at any moment (crash, or reaction to SIGTERM)
ChildExit(p) ==
    /\ proc[p].st = "live"
    /\ proc' = [proc EXCEPT ![p].st = "dead"]
    /\ UNCHANGED <<processes, pending_requests, nextPid, out, transcript, reader,
                   starts, stops, cleanup, call>>
    /\ UNCHANGED regVars

\* ------------------------------------------------------------- start_server
\* the processes the manager is in the course of stopping: a stop_server that
\* has sent terminate() and sleeps before poll()/kill()/del
Stopping(sp, cl) ==
    {sp[k].pinfo : k \in {j \in StopIds : sp[j].st = "sleeping"}}
        \cup (IF cl.st = "sleeping" THEN {cl.pinfo} ELSE {})

\* name has a successfully started, live child that is not being stopped
Serving(ps, pr, sp, cl, n) ==
    /\ InMap(ps, n)
    /\ pr[Lookup(ps, n)].st = "live"
    /\ pr[Lookup(ps, n)].ok
    /\ Lookup(ps, n) \notin Stopping(sp, cl)

\* a caller invokes start_server(name, config): the coroutine is created and
\* scheduled; its body has not run yet
StartCall(k, n) ==
    /\ starts[k].st = "idle"
    /\ \A j \in StartIds : j < k => starts[j].st # "idle"   \* numbered in order
    /\ starts' = [starts EXCEPT ![k].st = "ready", ![k].name = n]
    /\ UNCHANGED <<processes, pending_requests, proc, nextPid, out, transcript,
                   reader, cleanup, stops, call>>
    /\ UNCHANGED regVars

\* another start_server call for the same name is in flight beside call k
Overlapped(k) ==
    \E j \in StartIds \ {k} : starts[j].st = "ready" /\ starts[j].name = starts[k].name

\* the handshake written by _initialize_connection: the initialize request and,
\* straight after it, the initialized notification
Handshake(p) ==
    << [ev |-> "initialize", id |-> InitId(p)],
       [ev |-> "initialized", id |-> NoId] >>

\* the part of the manager's state that start_server works on
Mgr ==
    [processes |-> processes, proc |-> proc, nextPid |-> nextPid,
     transcript |-> transcript, reader |-> reader]

\* the outcomes of start_server's body, lines 43-100:
\*   "spawn_fail": server_config lookup or subprocess.Popen raises
\*   "write_fail": Popen succeeds, the child is gone before the handshake is
\*                 written and stdin.write/flush raises
\*   "ok":         Popen and both handshake writes succeed
\* sf: whether signalling this child will raise (e.g. PermissionError)
\* the outcome is possible for name n in manager state m
CanStart(m, n, outcome, sf) ==
    IF InMap(m.processes, n) THEN outcome = "ok" /\ sf = FALSE
    ELSE IF outcome = "spawn_fail" THEN sf = FALSE
    ELSE m.nextPid <= MaxSpawn

\* what start_server returns
StartResult(m, n, outcome) ==
    IF InMap(m.processes, n) THEN TRUE     \* line 43-45: already running
    ELSE outcome = "ok"                    \* line 96, or line 98-100

\* the manager's state after start_server's body
StartState(m, n, outcome, sf) ==
    IF InMap(m.processes, n) \/ outcome = "spawn_fail" THEN m
    ELSE LET p == m.nextPid IN
         [processes |-> Put(m.processes, n, p),
          proc |-> [m.proc EXCEPT ![p] =
                       [st |-> IF outcome = "ok" THEN "live" ELSE "dead",
                        name |-> n, sigfail |-> sf, ok |-> outcome = "ok"]],
          nextPid |-> p + 1,
          transcript |-> [m.transcript EXCEPT ![p] =
                             IF outcome = "ok" THEN Handshake(p) ELSE <<>>],
          reader |-> [m.reader EXCEPT ![p] = [st |-> "created", on |-> NoProc]]]

\* the body of start_server, lines 43-100, in one step
StartRun(k, outcome, sf) ==
    LET n == starts[k].name
        m == StartState(Mgr, n, outcome, sf)
    IN
    /\ starts[k].st = "ready"
    /\ CanStart(Mgr, n, outcome, sf)
    /\ processes' = m.processes
    /\ proc' = m.proc
    /\ nextPid' = m.nextPid
    /\ transcript' = m.transcript
    /\ reader' = m.reader
    /\ starts' = [starts EXCEPT ![k].st = "done", ![k].conc = Overlapped(k),
                      ![k].res = StartResult(Mgr, n, outcome),
                      ![k].good = Serving(m.processes, m.proc, stops, cleanup, n)]
    /\ UNCHANGED <<pending_requests, out, stops, cleanup, call>>
    /\ UNCHANGED regVars

\* -------------------------------------------------------------- stop_server
\* process.terminate() raises: the signal cannot be delivered to a live child
TerminateRaises(pr, p) == pr[p].st = "live" /\ pr[p].sigfail

\* line 143-144: poll() and kill() of the process read at line 139
PollKill(pr, p) == IF pr[p].st = "live" THEN [pr EXCEPT ![p].st = "dead"] ELSE pr

\* line 146: del self.processes[server_name]; a KeyError is caught at line 149
DelEntry(ps, n) == IF InMap(ps, n) THEN Del(ps, n) ELSE ps

\* stop_server up to asyncio.sleep(0.5), lines 135-141
StopBegin(k, n) ==
    /\ stops[k].st = "idle"
    /\ \A j \in StopIds : j < k => stops[j].st # "idle"     \* numbered in order
    /\ IF ~InMap(processes, n)
       THEN stops' = [stops EXCEPT ![k].st = "done", ![k].name = n]
       ELSE IF TerminateRaises(proc, Lookup(processes, n))
       THEN stops' = [stops EXCEPT ![k].st = "done", ![k].name = n]
       ELSE stops' = [stops EXCEPT ![k].st = "sleeping", ![k].name = n,
                                   ![k].pinfo = Lookup(processes, n)]
    /\ UNCHANGED <<processes, pending_requests, proc, nextPid, out, transcript,
                   reader, starts, cleanup, call>>
    /\ UNCHANGED regVars

\* stop_server after the sleep, lines 143-150
StopResume(k) ==
    /\ stops[k].st = "sleeping"
    /\ proc' = PollKill(proc, stops[k].pinfo)
    /\ processes' = DelEntry(processes, stops[k].name)
    /\ stops' = [stops EXCEPT ![k].st = "done", ![k].pinfo = NoProc]
    /\ UNCHANGED <<pending_requests, nextPid, out, transcript, reader, starts,
                   cleanup, call>>
    /\ UNCHANGED regVars

\* ------------------------------------------------------------------ cleanup
\* the names of todo for which stop_server returns without suspending (name
\* absent, or terminate() raises) are passed over in the same step
RECURSIVE SkipReturning(_, _, _)
SkipReturning(todo, ps, pr) ==
    IF todo = <<>> THEN <<>>
    ELSE IF ~InMap(ps, Head(todo)) \/ TerminateRaises(pr, Lookup(ps, Head(todo)))
    THEN SkipReturning(Tail(todo), ps, pr)
    ELSE todo

\* cleanup's position after it has gone on with the names of todo
CleanupAt(todo, ps, pr) ==
    LET rest == SkipReturning(todo, ps, pr) IN
    IF rest = <<>>
    THEN [st |-> "done", todo |-> <<>>, pinfo |-> NoProc]
    ELSE [st |-> "sleeping", todo |-> rest, pinfo |-> Lookup(ps, Head(rest))]

\* cleanup() from the snapshot of the keys to the first sleep, lines 284-286
CleanupBegin ==
    /\ cleanup.st = "idle"
    /\ cleanup' = CleanupAt(Keys(processes), processes, proc)
    /\ UNCHANGED <<processes, pending_requests, proc, nextPid, out, transcript,
                   reader, starts, stops, call>>
    /\ UNCHANGED regVars

\* cleanup() from the end of one stop_server's sleep to the next sleep
CleanupResume ==
    /\ cleanup.st = "sleeping"
    /\ proc' = PollKill(proc, cleanup.pinfo)
    /\ processes' = DelEntry(processes, Head(cleanup.todo))
    /\ cleanup' = CleanupAt(Tail(cleanup.todo), processes', proc')
    /\ UNCHANGED <<pending_requests, nextPid, out, transcript, reader, starts,
                   stops, call>>
    /\ UNCHANGED regVars

Outcomes == {"spawn_fail", "write_fail", "ok"}

\* starts and stops of servers whose children die when signalled
NextStart ==
    \/ \E p \in Pids : ChildExit(p)
    \/ \E k \in StartIds, n \in Names : StartCall(k, n)
    \/ \E k \in StartIds, o \in Outcomes : StartRun(k, o, FALSE)
    \/ \E k \in StopIds, n \in Names : StopBegin(k, n)
    \/ \E k \in StopIds : StopResume(k)

SpecStart == Init /\ [][NextStart]_vars

\* the lifecycle operations: the same with cleanup(), and with children that
\* cannot be signalled
NextLife ==
    \/ NextStart
    \/ \E k \in StartIds, o \in Outcomes : StartRun(k, o, TRUE)
    \/ CleanupBegin
    \/ CleanupResume

SpecLife == Init /\ [][NextLife]_vars

\* ------------------------------------------------------- the child's output
\* the request ids child p has been sent on its stdin
ReceivedIds(p) ==
    {transcript[p][i].id : i \in {j \in 1..Len(transcript[p]) :
                                    transcript[p][j].ev \in {"initialize", "tools/call"}}}

\* the lines that are no JSON-RPC message of the protocol: text that is not
\* JSON, JSON that is not an object (a number), and a response whose id is a
\* number
BadLines ==
    {[id |-> NoId, kind |-> "invalid_json", val |-> 0],
     [id |-> NoId, kind |-> "number", val |-> 0],
     [id |-> NumId, kind |-> "result", val |-> 0]}

\* the lines a child can print: a response to a request it was sent, carrying
\* a result, an error or neither, or a notification (a method and no id)
Lines(p) ==
    {[id |-> i, kind |-> "result", val |-> v] : i \in ReceivedIds(p) \cap CallIds, v \in Vals}
        \cup {[id |-> i, kind |-> k, val |-> 0] :
                  i \in ReceivedIds(p) \cap CallIds, k \in {"error", "neither"}}
        \cup {[id |-> i, kind |-> "result", val |-> 0] : i \in ReceivedIds(p) \ CallIds}
        \cup {[id |-> NoId, kind |-> "method", val |-> 0]}
        \cup BadLines

\* the answers to tools/call requests: a result, an error, or neither
Answers ==
    [id : CallIds, kind : {"result"}, val : Vals]
        \cup [id : CallIds, kind : {"error", "neither"}, val : {0}]

\* the other lines: the answer to initialize, and a notification
OtherLines ==
    [id : {InitId(p) : p \in Pids}, kind : {"result"}, val : {0}]
        \cup {[id |-> NoId, kind |-> "method", val |-> 0]}

\* a live child prints one line on its stdout
ChildEmit(p, m) ==
    /\ proc[p].st = "live"
    /\ Len(out[p]) < MaxOut
    /\ m \in Lines(p)
    /\ out' = [out EXCEPT ![p] = Append(@, m)]
    /\ UNCHANGED <<processes, pending_requests, proc, nextPid, transcript, reader,
                   starts, stops, cleanup, call>>
    /\ UNCHANGED regVars

\* ------------------------------------------------------------- _read_output
\* first step of the reader task created at line 90: lines 209-215
ReaderStart(t) ==
    /\ reader[t].st = "created"
    /\ reader' = [reader EXCEPT ![t] =
           IF InMap(processes, proc[t].name)
           THEN [st |-> "reading", on |-> Lookup(processes, proc[t].name)]
           ELSE [st |-> "stopped_norun", on |-> NoProc]]
    /\ UNCHANGED <<processes, pending_requests, proc, nextPid, out, transcript,
                   starts, stops, cleanup, call>>
    /\ UNCHANGED regVars

\* `"id" in response and response["id"] in self.pending_requests`, line 268
Matches(m, pend) == m.id # NoId /\ m.id \in pend

\* mutation: the response is handed to the oldest pending request
TargetOldest(m, pend) == CHOOSE i \in pend : \A j \in pend : i <= j
\* the request whose future _handle_response pops for m, line 269
Target(m, pend) == m.id

\* json.loads(line) returns a value, line 234 (else JSONDecodeError, line 236)
Parsed(m) == m.kind # "invalid_json"

\* the parsed value is a dict; on a number `"id" in response` (line 268)
\* raises TypeError
IsObject(m) == m.kind # "number"

\* line 215: the loop goes on while the name is in the map
LoopTest(t) == IF InMap(processes, proc[t].name) THEN "reading" ELSE "stopped_unmapped"

\* the reader has a whole line: json.loads and _handle_response (lines 228-237,
\* 265-280), then the loop test of line 215
ReaderLine(t) ==
    LET p == reader[t].on
        m == Head(out[p])
        c == Target(m, pending_requests)
    IN
    /\ reader[t].st = "reading"
    /\ out[p] # <<>>
    /\ out' = [out EXCEPT ![p] = Tail(@)]
    /\ IF ~Parsed(m)
       THEN \* JSONDecodeError, caught at line 236: the line is logged
            /\ reader' = [reader EXCEPT ![t].st = LoopTest(t)]
            /\ UNCHANGED <<pending_requests, call, transcript>>
       ELSE IF ~IsObject(m)
       THEN \* TypeError out of _handle_response, caught at line 239: the
            \* reader breaks out of its loop
            /\ reader' = [reader EXCEPT ![t].st = "stopped_error"]
            /\ UNCHANGED <<pending_requests, call, transcript>>
       ELSE IF Matches(m, pending_requests)
       THEN /\ pending_requests' = pending_requests \ {c}
            /\ IF call[c].fut = FutPending
               THEN \* set_result on the waiting future
                    /\ call' = [call EXCEPT ![c].fut = Payload(m)]
                    /\ reader' = [reader EXCEPT ![t].st = LoopTest(t)]
               ELSE \* set_result on a cancelled future raises InvalidStateError,
                    \* caught at line 239: the reader breaks out of its loop
                    /\ reader' = [reader EXCEPT ![t].st = "stopped_error"]
                    /\ UNCHANGED call
            /\ UNCHANGED transcript
       ELSE \* an unknown id, or a notification: nothing to do
            /\ UNCHANGED <<pending_requests, call>>
            /\ transcript' = [transcript EXCEPT ![p] =
                   IF m.id = InitId(p) /\ \A i \in 1..Len(@) : @[i].ev # "init_response"
                   THEN Append(@, [ev |-> "init_response", id |-> m.id]) ELSE @]
            /\ reader' = [reader EXCEPT ![t].st = LoopTest(t)]
    /\ UNCHANGED <<processes, proc, nextPid, starts, stops, cleanup>>
    /\ UNCHANGED regVars

\* mutation: at end of stream the reader fails every request of
\* pending_requests, which holds the requests of all servers
ReaderEOFFailAll(t) ==
    /\ reader[t].st = "reading"
    /\ out[reader[t].on] = <<>>
    /\ proc[reader[t].on].st = "dead"
    /\ reader' = [reader EXCEPT ![t].st = "stopped_eof"]
    /\ pending_requests' = {}
    /\ call' = [c \in CallIds |->
                   IF c \in pending_requests /\ call[c].fut = FutPending
                   THEN [call[c] EXCEPT !.fut = InvalidFormat] ELSE call[c]]
    /\ UNCHANGED <<processes, proc, nextPid, out, transcript, starts, stops, cleanup>>
    /\ UNCHANGED regVars
\* stdout.read(1) returns "" at end of stream: the child has exited and its
\* pipe is drained (line 222)
ReaderEOF(t) ==
    /\ reader[t].st = "reading"
    /\ out[reader[t].on] = <<>>
    /\ proc[reader[t].on].st = "dead"
    /\ reader' = [reader EXCEPT ![t].st = "stopped_eof"]
    /\ UNCHANGED <<processes, pending_requests, proc, nextPid, out, transcript,
                   starts, stops, cleanup, call>>
    /\ UNCHANGED regVars

\* ------------------------------------------------------------- execute_tool
\* the body of execute_tool up to asyncio.wait_for, lines 154-181, for the
\* call c on server n; cl is the record of the calls so far
\* (the tool name and the arguments travel in the request line; nothing
\* the manager does depends on them)
ExecBody(c, n, cl) ==
    /\ IF ~InMap(processes, n)
       THEN /\ call' = [cl EXCEPT ![c].st = "done", ![c].name = n,
                                  ![c].ret = NotRunning]
            /\ UNCHANGED <<pending_requests, transcript>>
       ELSE LET p == Lookup(processes, n) IN
            /\ pending_requests' = pending_requests \cup {c}
            /\ IF proc[p].st = "live"
               THEN /\ transcript' = [transcript EXCEPT ![p] =
                                         Append(@, [ev |-> "tools/call", id |-> c])]
                    /\ call' = [cl EXCEPT ![c].st = "waiting", ![c].name = n,
                                    ![c].to = p, ![c].fut = FutPending]
               ELSE \* stdin.write raises (broken pipe), re-raised at line 201
                    /\ call' = [cl EXCEPT ![c].st = "done", ![c].name = n,
                                    ![c].fut = FutPending,
                                    ![c].ret = RaisedWriteError]
                    /\ UNCHANGED transcript
    /\ UNCHANGED <<processes, proc, nextPid, out, reader, starts, stops, cleanup>>
    /\ UNCHANGED regVars

\* a caller invokes execute_tool(n, ...): the coroutine runs up to wait_for
ExecBegin(c, n) ==
    /\ call[c].st = "idle"
    /\ \A j \in CallIds : j < c => call[j].st # "idle"       \* numbered in order
    /\ ExecBody(c, n, call)

\* the 30 s of wait_for elapse with the future still pending: wait_for cancels
\* the future; execute_tool itself resumes in a later step of the loop
ExecTimeout(c) ==
    /\ call[c].st = "waiting"
    /\ call[c].fut = FutPending
    /\ call' = [call EXCEPT ![c].fut = FutCancelled]
    /\ UNCHANGED <<processes, pending_requests, proc, nextPid, out, transcript,
                   reader, starts, stops, cleanup>>
    /\ UNCHANGED regVars

\* execute_tool resumes from wait_for, lines 182-185
ExecResume(c) ==
    /\ call[c].st = "waiting"
    /\ call[c].fut # FutPending
    /\ IF call[c].fut # FutCancelled
       THEN \* line 182
            /\ call' = [call EXCEPT ![c].st = "done", ![c].ret = call[c].fut]
            /\ UNCHANGED pending_requests
       ELSE IF c \in pending_requests
       THEN \* line 184-185
            /\ pending_requests' = pending_requests \ {c}
            /\ call' = [call EXCEPT ![c].st = "done", ![c].ret = TimeoutError]
       ELSE \* line 184: del of an absent key
            /\ call' = [call EXCEPT ![c].st = "done", ![c].ret = RaisedKeyError]
            /\ UNCHANGED pending_requests
    /\ UNCHANGED <<processes, proc, nextPid, out, transcript, reader, starts,
                   stops, cleanup>>
    /\ UNCHANGED regVars

\* the server the calls are made on
CallNames == {"a"}
\* and the start_server invocation that starts it
CallStarts == {1}

\* ---------------------------------------------------------- the proxy tools
\* the payloads the wrappers build themselves
ProxyError == <<"error_proxy", 0>>      \* {"error": "Proxy error: ..."}
WrapperError == <<"error_wrapper", 0>>  \* {"error": str(e), "server": ..., "tool": ...}
StartFailed == <<"error_start", 0>>     \* {"error": "Failed to start server ...", ...}

\* execute_tool raised instead of returning
Raised(v) == v[1] \in {"raise_KeyError", "raise_write"}

\* mutation: the proxy lets the exception of execute_tool through
proxy_tool_reraise(v) == v
\* proxy_tool of register_proxy_tools, main.py lines 227-245: what it returns
\* when execute_tool has returned or raised v
proxy_tool(v) == IF Raised(v) THEN ProxyError ELSE v

\* tool_wrapper over _execute_npx_tool, dynamic_registry.py lines 193-203 and
\* 308-330: what it returns when execute_tool has returned or raised v
tool_wrapper(v) == IF Raised(v) THEN WrapperError ELSE v

\* what the invocation c gives its caller, once it is done
Returned(c) ==
    IF call[c].via = "proxy_tool" THEN proxy_tool(call[c].ret)
    ELSE IF call[c].via = "tool_wrapper" THEN tool_wrapper(call[c].ret)
    ELSE call[c].ret

\* a client invokes the proxy tool that register_proxy_tools registered for a
\* tool of server n: proxy_tool calls execute_tool at once, main.py line 237
ProxyBegin(c, n) ==
    /\ call[c].st = "idle"
    /\ \A j \in CallIds : j < c => call[j].st # "idle"       \* numbered in order
    /\ ExecBody(c, n, [call EXCEPT ![c].via = "proxy_tool"])

\* a client invokes the wrapper that register_all_with_fastmcp registered for
\* a tool of server n: _execute_npx_tool, dynamic_registry.py lines 172-193,
\* starts the server if its name is not in the map (outcome o) and sleeps 1 s,
\* or goes straight to execute_tool
NpxBegin(c, n, o) ==
    LET cl == [call EXCEPT ![c].via = "tool_wrapper"]
        m == StartState(Mgr, n, o, FALSE)
    IN
    /\ call[c].st = "idle"
    /\ \A j \in CallIds : j < c => call[j].st # "idle"       \* numbered in order
    /\ IF InMap(processes, n)
       THEN o = "ok" /\ ExecBody(c, n, cl)
       ELSE /\ CanStart(Mgr, n, o, FALSE)
            /\ processes' = m.processes
            /\ proc' = m.proc
            /\ nextPid' = m.nextPid
            /\ transcript' = m.transcript
            /\ reader' = m.reader
            /\ call' = IF StartResult(Mgr, n, o)
                       THEN [cl EXCEPT ![c].st = "start_sleep", ![c].name = n]
                       ELSE \* lines 183-187
                            [cl EXCEPT ![c].st = "done", ![c].name = n,
                                       ![c].ret = StartFailed]
            /\ UNCHANGED <<pending_requests, out, starts, stops, cleanup>>
            /\ UNCHANGED regVars

\* the sleep of line 189 is over: execute_tool, line 193
NpxResume(c) ==
    /\ call[c].st = "start_sleep"
    /\ ExecBody(c, call[c].name, call)

\* the answers of a child that answers with one result or with an error
BriefAnswers == [id : CallIds, kind : {"result", "error"}, val : {1}]

\* invocations of the proxy tools of one server, which a caller may also
\* have started, on children that answer, fall silent or exit
NextProxy ==
    \/ \E p \in Pids : ChildExit(p)
    \/ \E k \in CallStarts, n \in CallNames : StartCall(k, n)
    \/ \E k \in CallStarts, o \in Outcomes : StartRun(k, o, FALSE)
    \/ \E p \in Pids, m \in BriefAnswers : ChildEmit(p, m)
    \/ \E t \in Pids : ReaderStart(t)
    \/ \E t \in Pids : ReaderLine(t)
    \/ \E t \in Pids : ReaderEOF(t)
    \/ \E c \in CallIds, n \in CallNames : ProxyBegin(c, n)
    \/ \E c \in CallIds, n \in CallNames, o \in Outcomes : NpxBegin(c, n, o)
    \/ \E c \in CallIds : NpxResume(c)
    \/ \E c \in CallIds : ExecTimeout(c)
    \/ \E c \in CallIds : ExecResume(c)

SpecProxy == Init /\ [][NextProxy]_vars

\* the same, with servers that are stopped by cleanup() (the end of a
\* refresh_tools, main.py line 351, or of the application)
NextDemand ==
    \/ NextProxy
    \/ CleanupBegin
    \/ CleanupResume

SpecDemand == Init /\ [][NextDemand]_vars

\* requests and responses on a server that is started once and never
\* stopped, whose child prints nothing but answers to tools/call requests and
\* does not exit
NextAnswers ==
    \/ \E k \in CallStarts, n \in CallNames : StartCall(k, n)
    \/ \E k \in CallStarts, o \in Outcomes : StartRun(k, o, FALSE)
    \/ \E p \in Pids, m \in Answers : ChildEmit(p, m)
    \/ \E t \in Pids : ReaderStart(t)
    \/ \E t \in Pids : ReaderLine(t)
    \/ \E t \in Pids : ReaderEOF(t)
    \/ \E c \in CallIds, n \in CallNames : ExecBegin(c, n)
    \/ \E c \in CallIds : ExecTimeout(c)
    \/ \E c \in CallIds : ExecResume(c)

SpecAnswers == Init /\ [][NextAnswers]_vars

\* the same, with a child that may exit at any moment
NextCorr ==
    \/ NextAnswers
    \/ \E p \in Pids : ChildExit(p)

SpecCorr == Init /\ [][NextCorr]_vars

\* the same, with a child that also answers initialize and sends notifications
NextCall ==
    \/ NextCorr
    \/ \E p \in Pids, m \in OtherLines : ChildEmit(p, m)

SpecCall == Init /\ [][NextCall]_vars

\* the same as NextCorr, with a child that also prints lines that are no
\* message of the protocol
NextLines ==
    \/ NextCorr
    \/ \E p \in Pids, m \in BadLines : ChildEmit(p, m)

SpecLines == Init /\ [][NextLines]_vars

\* the answers of a child that answers every tools/call with the same result
PlainAnswers == [id : CallIds, kind : {"result"}, val : {1}]

\* the start_server invocations that start the two servers
TwoStarts == {1, 2}

\* requests and responses on two servers side by side, neither of them
\* stopped, whose children answer every request alike and in time
NextTwo ==
    \/ \E p \in Pids : ChildExit(p)
    \/ \E k \in TwoStarts, n \in Names : StartCall(k, n)
    \/ \E k \in TwoStarts, o \in Outcomes : StartRun(k, o, FALSE)
    \/ \E p \in Pids, m \in PlainAnswers : ChildEmit(p, m)
    \/ \E t \in Pids : ReaderStart(t)
    \/ \E t \in Pids : ReaderLine(t)
    \/ \E t \in Pids : ReaderEOF(t)
    \/ \E c \in CallIds, n \in Names : ExecBegin(c, n)
    \/ \E c \in CallIds : ExecResume(c)

SpecTwo == Init /\ [][NextTwo]_vars

\* a live child prints a response that carries an id it was not sent: the id
\* of a request made of another server
ChildEmitForeign(p, m) ==
    /\ proc[p].st = "live"
    /\ Len(out[p]) < MaxOut
    /\ m.id \notin ReceivedIds(p)
    /\ \E q \in Pids \ {p} : m.id \in ReceivedIds(q)
    /\ out' = [out EXCEPT ![p] = Append(@, m)]
    /\ UNCHANGED <<processes, pending_requests, proc, nextPid, transcript, reader,
                   starts, stops, cleanup, call>>
    /\ UNCHANGED regVars

\* two servers side by side, whose children may also answer requests they
\* were not sent
NextShared ==
    \/ NextTwo
    \/ \E p \in Pids, m \in PlainAnswers : ChildEmitForeign(p, m)

SpecShared == Init /\ [][NextShared]_vars

\* requests and responses on a server that is also stopped, by stop_server
\* or by cleanup(), while calls are in flight
NextStop ==
    \/ NextCorr
    \/ \E k \in StopIds, n \in CallNames : StopBegin(k, n)
    \/ \E k \in StopIds : StopResume(k)
    \/ CleanupBegin
    \/ CleanupResume

SpecStop == Init /\ [][NextStop]_vars

\* ------------------------------------------------------ DynamicToolRegistry
\* registry.config["servers"].items(): the configured servers, in order
ServerOrder == <<"a", "a_b">>

\* what a server's "environment" section says about the variable: nothing,
\* {"required": true}, {} (no "required" key) or {"required": false}
EnvDecls == {"none", "required", "default", "optional"}

\* the variable in os.environ: not there, there and empty, there with a value
EnvStates == {"unset", "empty", "set"}

\* the variable the servers declare
EnvVar == "API_KEY"

\* env_details.get("required", True), line 262
Required(decl) == decl \in {"required", "default"}

\* mutation: any variable passes for present
PresentAlways(env) == TRUE
\* `if os.getenv(env_var)`, line 263
Present(env) == env = "set"

\* check_server_requirements, lines 247-269
check_server_requirements(cfg, env, n) ==
    IF cfg[n] # "none" /\ Required(cfg[n])
    THEN IF Present(env)
         THEN [ready |-> TRUE, missing_env |-> <<>>, present_env |-> <<EnvVar>>]
         ELSE [ready |-> FALSE, missing_env |-> <<EnvVar>>, present_env |-> <<>>]
    ELSE [ready |-> TRUE, missing_env |-> <<>>, present_env |-> <<>>]

\* `for attempt in range(3)`, line 106
Attempts == 3

\* what `await manager.list_tools(server_name)` gives: a listing of named
\* tools, a listing whose "tools" is not a list, an {"error": ...} answer, or
\* an exception
ListOutcomes ==
    [kind : {"tools"}, tools : SUBSET ToolNames]
        \cup [kind : {"malformed", "error", "raise"}, tools : {{}}]

\* self.tool_map[tool_name] = server_name for every tool of the listing,
\* lines 133-136
Record(tm, n, tools) == [t \in ToolNames |-> IF t \in tools THEN n ELSE tm[t]]

\* the key a tool is recorded under in tool_map, line 136
RoutingKey(n, t) == t

\* the name a tool is registered under with FastMCP, line 291
DisplayName(n, t) == n \o "_" \o t

\* discovery_errors.append(...)
Failed(ps, n, kind) == [ps EXCEPT !.errors = Append(@, [server |-> n, kind |-> kind])]

\* mutation: a server that cannot be used ends the pass
ScanStop(i, ps) == Len(ServerOrder) + 1
\* `continue`: the pass goes on with the next configured server
ScanOn(i, ps) == i + 1

\* the loop of discover_all_tools from server i to its next suspension: the
\* sleep after a start, the await of list_tools, or cleanup() after the last
\* server.  m is the manager's state, oc[n] the outcome of start_server for n
\* if the pass comes to call it; valid is FALSE when that outcome cannot be
RECURSIVE Scan(_, _, _, _)
Scan(i, m, ps, oc) ==
    IF i > Len(ServerOrder)
    THEN [m |-> m, pass |-> [ps EXCEPT !.st = "cleanup", !.idx = i], valid |-> TRUE]
    ELSE LET n == ServerOrder[i] IN
         IF ~check_server_requirements(config, environ, n).ready
         THEN \* lines 76-79
              Scan(ScanOn(i, ps), m, Failed(ps, n, "missing_env"), oc)
         ELSE IF InMap(m.processes, n)
         THEN \* line 84 is false: on to list_tools, line 108
              [m |-> m, pass |-> [ps EXCEPT !.st = "listing", !.idx = i, !.attempt = 0],
               valid |-> TRUE]
         ELSE IF ~CanStart(m, n, oc[n], FALSE)
         THEN [m |-> m, pass |-> ps, valid |-> FALSE]
         ELSE LET m2 == StartState(m, n, oc[n], FALSE)
                  ps2 == [ps EXCEPT !.called = @ \cup {n}]
              IN  IF StartResult(m, n, oc[n])
                  THEN \* lines 92-97: asyncio.sleep
                       [m |-> m2, pass |-> [ps2 EXCEPT !.st = "start_sleep", !.idx = i],
                        valid |-> TRUE]
                  ELSE \* lines 87-90
                       Scan(ScanOn(i, ps2), m2, Failed(ps2, n, "failed_start"), oc)

\* the pass has returned: its cleanup() has
PassDone == pass.st = "cleanup" /\ cleanup.st = "done"

\* the state the pass is in after a scan: the manager as the start_server
\* calls left it, and cleanup() begun if the loop is over (line 165)
Suspend(r) ==
    /\ r.valid
    /\ r.pass.st = "cleanup" => cleanup.st # "sleeping"
    /\ processes' = r.m.processes
    /\ proc' = r.m.proc
    /\ nextPid' = r.m.nextPid
    /\ transcript' = r.m.transcript
    /\ reader' = r.m.reader
    /\ pass' = r.pass
    /\ cleanup' = IF r.pass.st = "cleanup"
                  THEN CleanupAt(Keys(r.m.processes), r.m.processes, r.m.proc)
                  ELSE cleanup

\* the execute_tool calls that wait for their response
Waiting == {c \in CallIds : call[c].st = "waiting" /\ call[c].fut = FutPending}

\* discover_all_tools() is called, by refresh_tools (rf, main.py lines
\* 345-351: the two dictionaries are cleared first) or on its own, and runs to
\* its first suspension
DiscBegin(rf, oc) ==
    /\ pass.st = "idle" \/ PassDone
    /\ pass.runs < MaxRuns
    /\ tool_map' = IF rf THEN NoTools ELSE tool_map
    /\ discovered_tools' = IF rf THEN [n \in Names |-> NoListing] ELSE discovered_tools
    /\ Suspend(Scan(1, Mgr,
                    [NoPass EXCEPT !.refresh = rf, !.pre = tool_map,
                                   !.inflight = IF rf THEN Waiting ELSE {},
                                   !.runs = pass.runs + 1],
                    oc))
    /\ UNCHANGED <<pending_requests, out, starts, stops, call, config, environ,
                   tool_schemas, api>>

\* the sleep after a successful start is over (lines 93-97): the pass calls
\* list_tools for the first time
DiscStarted ==
    /\ pass.st = "start_sleep"
    /\ pass' = [pass EXCEPT !.st = "listing", !.attempt = 0]
    /\ UNCHANGED <<processes, pending_requests, proc, nextPid, out, transcript,
                   reader, starts, stops, cleanup, call, config, environ,
                   tool_map, discovered_tools, tool_schemas, api>>

\* list_tools comes back with lo, lines 108-142, and the pass runs to its
\* next suspension
DiscListed(lo, oc) ==
    LET n == ServerOrder[pass.idx] IN
    /\ pass.st = "listing"
    /\ IF lo.kind = "tools"
       THEN \* lines 126-142
            /\ discovered_tools' = [discovered_tools EXCEPT ![n] = lo]
            /\ tool_map' = Record(tool_map, n, lo.tools)
            /\ tool_schemas' = [tool_schemas EXCEPT ![n] = @ \cup lo.tools]
            /\ Suspend(Scan(pass.idx + 1, Mgr, pass, oc))
       ELSE IF lo.kind = "malformed"
       THEN \* line 127, then `for tool in tools` raises: lines 144-146
            /\ discovered_tools' = [discovered_tools EXCEPT ![n] = lo]
            /\ tool_map' = tool_map
            /\ UNCHANGED tool_schemas
            /\ Suspend(Scan(ScanOn(pass.idx, pass), Mgr, Failed(pass, n, "exception"), oc))
       ELSE IF pass.attempt < Attempts - 1
       THEN \* lines 111-117: asyncio.sleep(2.0) before the next attempt
            /\ pass' = [pass EXCEPT !.st = "retry_sleep"]
            /\ UNCHANGED <<processes, proc, nextPid, transcript, reader, cleanup,
                           tool_map, discovered_tools, tool_schemas>>
       ELSE \* lines 119-123
            /\ UNCHANGED <<tool_map, discovered_tools, tool_schemas>>
            /\ Suspend(Scan(ScanOn(pass.idx, pass), Mgr, Failed(pass, n, "listing_failed"), oc))
    /\ UNCHANGED <<pending_requests, out, starts, stops, call, config, environ, api>>

\* the sleep between two attempts is over: the next list_tools call
DiscRetry ==
    /\ pass.st = "retry_sleep"
    /\ pass' = [pass EXCEPT !.st = "listing", !.attempt = @ + 1]
    /\ UNCHANGED <<processes, pending_requests, proc, nextPid, out, transcript,
                   reader, starts, stops, cleanup, call, config, environ,
                   tool_map, discovered_tools, tool_schemas, api>>

\* a registry over servers with every kind of environment declaration
InitDisc ==
    /\ InitManager
    /\ InitRegistry
    /\ config \in [Names -> EnvDecls]
    /\ environ \in EnvStates

\* the outcomes of list_tools for servers that have the one tool or none
PassListings == {lo \in ListOutcomes : lo.tools \subseteq {"t"}}

\* discovery passes, alone or as refresh_tools
NextPass ==
    \/ \E rf \in BOOLEAN, oc \in [Names -> Outcomes] : DiscBegin(rf, oc)
    \/ DiscStarted
    \/ \E lo \in PassListings, oc \in [Names -> Outcomes] : DiscListed(lo, oc)
    \/ DiscRetry
    \/ CleanupResume

SpecPass == InitDisc /\ [][NextPass]_vars

\* the same, over servers with any listing, whose children may exit at any
\* moment
NextDisc ==
    \/ \E rf \in BOOLEAN, oc \in [Names -> Outcomes] : DiscBegin(rf, oc)
    \/ DiscStarted
    \/ \E lo \in ListOutcomes, oc \in [Names -> Outcomes] : DiscListed(lo, oc)
    \/ DiscRetry
    \/ CleanupResume
    \/ \E p \in Pids : ChildExit(p)

SpecDisc == InitDisc /\ [][NextDisc]_vars

\* the tool invocation that is made beside the refresh
RefreshCalls == {1}

\* list_tools answers with the same one-tool listing, or with an error
PlainListings ==
    {[kind |-> "tools", tools |-> {"t"}], [kind |-> "error", tools |-> {}]}

\* a tool invocation on a running server, through execute_tool, while
\* refresh_tools runs; the children exit only when they are killed
NextRefresh ==
    \/ \E k \in CallStarts, n \in CallNames : StartCall(k, n)
    \/ \E k \in CallStarts, o \in Outcomes : StartRun(k, o, FALSE)
    \/ \E p \in Pids, m \in PlainAnswers : ChildEmit(p, m)
    \/ \E t \in Pids : ReaderStart(t)
    \/ \E t \in Pids : ReaderLine(t)
    \/ \E t \in Pids : ReaderEOF(t)
    \/ \E c \in RefreshCalls, n \in CallNames : ExecBegin(c, n)
    \/ \E c \in RefreshCalls : ExecTimeout(c)
    \/ \E c \in RefreshCalls : ExecResume(c)
    \/ \E oc \in [Names -> Outcomes] : DiscBegin(TRUE, oc)
    \/ DiscStarted
    \/ \E lo \in PlainListings, oc \in [Names -> Outcomes] : DiscListed(lo, oc)
    \/ DiscRetry
    \/ CleanupResume

SpecRefresh == Init /\ [][NextRefresh]_vars

\* ----------------------------------------------- GET /servers/tools (API)
\* `var_config.get("required", False) and not os.getenv(var_name)`,
\* servers.py lines 152-154: the server declares the variable required and
\* it is missing
ApiMissing(cfg, env, n) == cfg[n] = "required" /\ ~Present(env)

\* the tools the handler takes from what list_tools gave, lines 173-185:
\* those of a listing; none from an error answer, a malformed listing or an
\* exception
ApiTools(lo) == IF lo.kind = "tools" THEN lo.tools ELSE {}

\* mutation: the tools of a server are not added to the total
AnswerUncounted(rq, n, tools) ==
    [rq EXCEPT !.servers = Append(@, [id |-> n, tools |-> tools,
                                      tool_count |-> Cardinality(tools)])]
\* lines 223-233: the entry of server n, with the tools its query returned
Answer(rq, n, tools) ==
    [rq EXCEPT !.servers = Append(@, [id |-> n, tools |-> tools,
                                      tool_count |-> Cardinality(tools)]),
               !.total_tools = @ + Cardinality(tools)]

\* lines 238-242: the response
Respond(rq) ==
    [servers |-> rq.servers, total_servers |-> Len(rq.servers),
     total_tools |-> rq.total_tools]

\* the handler with its cleanup() at cl: suspended in it, or returned
ApiFinish(rq, cl) ==
    IF cl.st = "done"
    THEN [rq EXCEPT !.st = "done", !.cl = cl, !.resp = Respond(rq)]
    ELSE [rq EXCEPT !.st = "cleanup", !.cl = cl]

\* the handler from server i to its next suspension, lines 149-171 and
\* 222-236: the queries are awaited one after the other, in the order of the
\* registry; the sleep after a start, the await of list_tools, or cleanup()
\* after the last server.  m is the manager's state, oc[n] the outcome of
\* start_server for n if the handler comes to call it; valid is FALSE when
\* that outcome cannot be
RECURSIVE ApiScan(_, _, _, _)
ApiScan(i, m, rq, oc) ==
    IF i > Len(ServerOrder)
    THEN [m |-> m, valid |-> TRUE,
          rq |-> ApiFinish([rq EXCEPT !.idx = i, !.pid = NoProc],
                           CleanupAt(Keys(m.processes), m.processes, m.proc))]
    ELSE LET n == ServerOrder[i] IN
         IF ApiMissing(config, environ, n)
         THEN \* lines 156-158
              ApiScan(i + 1, m, Answer(rq, n, {}), oc)
         ELSE IF InMap(m.processes, n)
         THEN \* line 161 is false: on to list_tools, line 171
              [m |-> m, valid |-> TRUE,
               rq |-> [rq EXCEPT !.st = "listing", !.idx = i, !.pid = NoProc]]
         ELSE IF ~CanStart(m, n, oc[n], FALSE)
         THEN [m |-> m, valid |-> FALSE, rq |-> rq]
         ELSE LET m2 == StartState(m, n, oc[n], FALSE) IN
              IF StartResult(m, n, oc[n])
              THEN \* line 168: asyncio.sleep(2.0)
                   [m |-> m2, valid |-> TRUE,
                    rq |-> [rq EXCEPT !.st = "start_sleep", !.idx = i,
                                      !.pid = m.nextPid]]
              ELSE \* lines 164-166
                   ApiScan(i + 1, m2, Answer(rq, n, {}), oc)

\* the state request r is in after a scan
ApiSuspend(r, res) ==
    /\ res.valid
    /\ processes' = res.m.processes
    /\ proc' = res.m.proc
    /\ nextPid' = res.m.nextPid
    /\ transcript' = res.m.transcript
    /\ reader' = res.m.reader
    /\ api' = [api EXCEPT ![r] = res.rq]
    /\ UNCHANGED <<pending_requests, out, starts, stops, cleanup, call, config,
                   environ, tool_map, discovered_tools, tool_schemas, pass>>

\* a client sends GET /servers/tools: get_servers_with_tools runs to its
\* first suspension
ApiBegin(r, oc) ==
    /\ api[r].st = "idle"
    /\ \A q \in Requests : q < r => api[q].st # "idle"        \* numbered in order
    /\ ApiSuspend(r, ApiScan(1, Mgr, NoApi, oc))

\* the sleep after a successful start is over (line 168): list_tools, line 171
ApiStarted(r) ==
    /\ api[r].st = "start_sleep"
    /\ api' = [api EXCEPT ![r].st = "listing"]
    /\ UNCHANGED <<processes, pending_requests, proc, nextPid, out, transcript,
                   reader, starts, stops, cleanup, call, config, environ,
                   tool_map, discovered_tools, tool_schemas, pass>>

\* list_tools comes back with lo, lines 171-187 and 223-233, and the handler
\* runs to its next suspension
ApiListed(r, lo, oc) ==
    /\ api[r].st = "listing"
    /\ ApiSuspend(r, ApiScan(api[r].idx + 1, Mgr,
                             Answer(api[r], ServerOrder[api[r].idx], ApiTools(lo)),
                             oc))

\* the handler's cleanup() from the end of one stop_server's sleep to the
\* next sleep, or to the response
ApiCleanupResume(r) ==
    /\ api[r].st = "cleanup"
    /\ proc' = PollKill(proc, api[r].cl.pinfo)
    /\ processes' = DelEntry(processes, Head(api[r].cl.todo))
    /\ api' = [api EXCEPT ![r] =
                  ApiFinish(api[r], CleanupAt(Tail(api[r].cl.todo), processes', proc'))]
    /\ UNCHANGED <<pending_requests, nextPid, out, transcript, reader, starts,
                   stops, cleanup, call, config, environ, tool_map,
                   discovered_tools, tool_schemas, pass>>

\* the registry of the API over servers that declare the variable required,
\* declare it without saying so, or declare nothing
InitApi ==
    /\ InitManager
    /\ InitRegistry
    /\ config \in [Names -> {"none", "required", "default"}]
    /\ environ \in {"unset", "set"}

\* list_tools answers with a listing of no, one or two tools, or with an error
ApiListings ==
    {lo \in ListOutcomes : lo.kind = "error" \/ (lo.kind = "tools" /\ lo.tools # {"b_t"})}

\* requests to GET /servers/tools, one or two at a time; the children exit
\* only when they are killed
NextApi ==
    \/ \E r \in Requests, oc \in [Names -> Outcomes] : ApiBegin(r, oc)
    \/ \E r \in Requests : ApiStarted(r)
    \/ \E r \in Requests, lo \in ApiListings, oc \in [Names -> Outcomes] :
           ApiListed(r, lo, oc)
    \/ \E r \in Requests : ApiCleanupResume(r)

SpecApi == InitApi /\ [][NextApi]_vars

\* every operation of the manager, of the registry, of the proxy tools and
\* of the API
Next ==
    \/ NextLife
    \/ NextCall
    \/ NextDisc
    \/ \E p \in Pids, m \in BadLines : ChildEmit(p, m)
    \/ \E p \in Pids, m \in Answers : ChildEmitForeign(p, m)
    \/ \E c \in CallIds, n \in Names : ExecBegin(c, n)
    \/ \E c \in CallIds, n \in Names : ProxyBegin(c, n)
    \/ \E c \in CallIds, n \in Names, o \in Outcomes : NpxBegin(c, n, o)
    \/ \E c \in CallIds : NpxResume(c)
    \/ \E r \in Requests, oc \in [Names -> Outcomes] : ApiBegin(r, oc)
    \/ \E r \in Requests : ApiStarted(r)
    \/ \E r \in Requests, lo \in ListOutcomes, oc \in [Names -> Outcomes] :
           ApiListed(r, lo, oc)
    \/ \E r \in Requests : ApiCleanupResume(r)

Spec == Init /\ [][Next]_vars

\* ================================================================== claims
\* the children of name n that exist as OS processes
Children(n) == {p \in Pids : proc[p].st # "none" /\ proc[p].name = n}
LiveChildren(n) == {p \in Pids : proc[p].st = "live" /\ proc[p].name = n}

\* C1: in every reachable state there is at most one live child process per
\* server name, and every live child is the one recorded under its name in
\* the processes map.
C1_OneRecordedLiveChild ==
    \A n \in Names :
        /\ Cardinality(LiveChildren(n)) <= 1
        /\ \A p \in LiveChildren(n) :
               InMap(processes, n) /\ Lookup(processes, n) = p

\* no stop_server(n) and no cleanup() has been invoked so far
NeverStopped(n) ==
    /\ cleanup.st = "idle"
    /\ \A k \in StopIds : stops[k].st = "idle" \/ stops[k].name # n

\* a spawn for n has succeeded: Popen and the handshake writes went through
SpawnSucceeded(n) == \E p \in Children(n) : proc[p].ok

\* C2: concurrent start_server calls for the same not-yet-started name spawn
\* at most one child process; once the spawn has succeeded, every other call
\* for the name returns True and spawns nothing.
C2_OneSpawnAllTrue ==
    [][\A n \in Names :
          NeverStopped(n)' =>
              /\ Cardinality(Children(n)') <= 1
              /\ SpawnSucceeded(n) =>
                    \A k \in StartIds :
                        (starts[k].name = n /\ starts[k].st = "ready"
                                            /\ starts'[k].st = "done")
                            => (starts'[k].res /\ nextPid' = nextPid)]_vars

\* C2 witness: two calls for one unstarted name were in flight together; both
\* have returned True and the name has exactly one child
C2_Witness ==
    \E n \in Names :
        /\ NeverStopped(n)
        /\ starts[1].st = "done" /\ starts[1].name = n /\ starts[1].res
        /\ starts[2].st = "done" /\ starts[2].name = n /\ starts[2].res
        /\ starts[1].conc \/ starts[2].conc
        /\ Cardinality(Children(n)) = 1

\* C3: when cleanup() returns, the processes map is empty and no child
\* process is alive.
C3_CleanupLeavesNothing ==
    [][(cleanup.st # "done" /\ cleanup'.st = "done")
          => (processes' = <<>> /\ \A p \in Pids : proc'[p].st # "live")]_vars

\* C10: start_server returns True only if, at its return, the name has a
\* successfully started live child that is not being stopped (good is what
\* Serving said when the call returned); a call whose own start failed
\* returns False.
C10_TrueMeansServing ==
    \A k \in StartIds :
        starts[k].st = "done" => (starts[k].res => starts[k].good)

\* the line the reader task t is about to take from its pipe
NextLine(t) == Head(out[reader[t].on])

\* the wait of execute_tool call c has timed out (its future stays cancelled)
TimedOut(c) == call[c].fut = FutCancelled

\* C4: once the reader has seen the end of a child's output, no execute_tool
\* call sent to that child is still waiting on its future (each was failed at
\* once, none is left to wait out its timeout), and a child that left a call
\* unanswered is no longer the running process of its name.
C4_ExitFailsPending ==
    \A t \in Pids : \A c \in CallIds :
        (reader[t].st = "stopped_eof" /\ call[c].to = reader[t].on
                                      /\ call[c].st = "waiting")
            => /\ call[c].fut # FutPending
               /\ ~(InMap(processes, proc[t].name)
                      /\ Lookup(processes, proc[t].name) = reader[t].on)

\* C5: an execute_tool call whose wait timed out returns the timeout error and
\* leaves no entry for its id in pending_requests, and a response read for the
\* id after the timeout changes nothing.
C5_TimeoutLeavesNothing ==
    /\ [](\A c \in CallIds :
              (TimedOut(c) /\ call[c].st = "done")
                  => (call[c].ret = TimeoutError /\ c \notin pending_requests))
    /\ [][\A t \in Pids :
              (ReaderLine(t) /\ NextLine(t).id \in CallIds /\ TimedOut(NextLine(t).id))
                  => /\ pending_requests' = pending_requests
                     /\ reader' = reader
                     /\ call' = call]_vars

\* C6: in no interleaving of a timeout and the arrival of the response for the
\* same id does the response handler meet the entry of a cancelled wait (the
\* reader then stops on the error) or does execute_tool end with anything but
\* the response or the timeout error.
C6_TimeoutAtomic ==
    /\ \A t \in Pids : reader[t].st # "stopped_error"
    /\ \A c \in CallIds : call[c].ret # RaisedKeyError

\* a value that comes from a response line
FromResponse(v) == v[1] \in {"result", "error", "error_invalid_format"}

\* C7: with several calls pending on one server, in whatever order the
\* responses arrive: a response read while the call of its id is waiting
\* completes that call, and no other, with its own payload ({"result": v}
\* gives v); a call's future is completed only by a line that carries the
\* call's own id; and the call returns the value its future was completed with.
C7_ResponsesByOwnId ==
    [][/\ \A t \in Pids :
              (ReaderLine(t) /\ NextLine(t).id \in CallIds
                             /\ call[NextLine(t).id].st = "waiting"
                             /\ call[NextLine(t).id].fut = FutPending)
                  => /\ NextLine(t).kind = "result"
                           => call'[NextLine(t).id].fut = <<"result", NextLine(t).val>>
                     /\ FromResponse(call'[NextLine(t).id].fut)
                     /\ \A c \in CallIds \ {NextLine(t).id} : call'[c] = call[c]
       /\ \A c \in CallIds :
              (call'[c].fut # call[c].fut /\ FromResponse(call'[c].fut))
                  => \E t \in Pids :
                         /\ ReaderLine(t)
                         /\ NextLine(t).id = c
                         /\ call'[c].fut = Payload(NextLine(t))
       /\ \A c \in CallIds :
              (call[c].st = "waiting" /\ call'[c].st = "done" /\ call[c].fut # FutCancelled)
                  => call'[c].ret = call[c].fut /\ FromResponse(call'[c].ret)]_vars

\* C7 witness: two calls are pending on the same child; the request sent
\* second was answered first and its call has returned that payload, while the
\* call sent first still waits and its answer, another payload, is in the pipe
C7_Witness ==
    /\ call[1].to # NoProc /\ call[1].to = call[2].to
    /\ call[2].st = "done" /\ call[2].ret = <<"result", 2>>
    /\ call[1].st = "waiting" /\ call[1].fut = FutPending
    /\ out[call[1].to] = <<[id |-> 1, kind |-> "result", val |-> 1]>>

\* C8: for every id in pending_requests, the first response carrying the id
\* completes the waiting caller with its value and removes the entry; a
\* further response carrying the id (the entry is gone) changes nothing and
\* raises nothing.
C8_FirstResponseOnly ==
    [][\A t \in Pids :
          ReaderLine(t) =>
              /\ NextLine(t).id \in pending_requests
                    => /\ NextLine(t).id \notin pending_requests'
                       /\ call'[NextLine(t).id].fut = Payload(NextLine(t))
                       /\ reader'[t].st # "stopped_error"
              /\ (NextLine(t).id \in CallIds /\ NextLine(t).id \notin pending_requests)
                    => /\ pending_requests' = pending_requests
                       /\ reader' = reader
                       /\ call' = call]_vars

\* C9: the initialized notification is written to a child only after the
\* response to its initialize request has been read, and start_server reports
\* success only after that.
C9_InitializedAfterResponse ==
    \A p \in Pids :
        \A i \in 1..Len(transcript[p]) :
            transcript[p][i].ev = "initialized"
                => \E j \in 1..(i - 1) : transcript[p][j].ev = "init_response"

\* C11: when stop_server or cleanup() has sent terminate() to a server's
\* process (and from then on, through the teardown), no execute_tool call sent
\* to that process is still waiting on a pending future: each was completed
\* with an error before the teardown began.
C11_StopFailsPending ==
    \A c \in CallIds :
        (call[c].st = "waiting" /\ call[c].fut = FutPending)
            => call[c].to \notin Stopping(stops, cleanup)

\* C14: a start_server call made for a name whose child process was started
\* successfully and has since exited spawns a new child process (or reports
\* that it could not): it never reports success while spawning nothing.
C14_RestartAfterExit ==
    [][\A k \in StartIds :
          LET n == starts[k].name IN
          (/\ starts[k].st = "ready" /\ starts'[k].st = "done"
           /\ InMap(processes, n)
           /\ proc[Lookup(processes, n)].ok
           /\ proc[Lookup(processes, n)].st = "dead")
              => (nextPid' = nextPid + 1 \/ ~starts'[k].res)]_vars

\* C15: after an execute_tool call on a server has timed out and returned, a
\* later call on the same server whose response has arrived while it waits is
\* going to get it: the server's reader task is still running to hand the
\* response over.
C15_UsableAfterTimeout ==
    \A c \in CallIds : \A d \in CallIds :
        (/\ c < d
         /\ TimedOut(c) /\ call[c].st = "done"
         /\ call[d].st = "waiting" /\ call[d].fut = FutPending
         /\ call[d].to = call[c].to
         /\ out[call[d].to] # <<>>
         /\ Head(out[call[d].to]).id = d)
            => reader[call[d].to].st \in {"created", "reading"}

\* the line is one the protocol has no use for: not JSON, not an object, or
\* with an id that matches no pending request
Unusable(m) == ~Parsed(m) \/ ~IsObject(m) \/ ~Matches(m, pending_requests)

\* C16: a line that is not valid JSON, not a JSON-RPC object, or whose id
\* matches no pending request is dropped and nothing else: no call and no
\* pending entry changes and the reader goes on with the next line.
C16_BadLineDropped ==
    [][\A t \in Pids :
          (ReaderLine(t) /\ Unusable(NextLine(t)))
              => /\ reader'[t].st = LoopTest(t)
                 /\ pending_requests' = pending_requests
                 /\ call' = call]_vars

\* the process recorded under name n, NoProc when there is none
Entry(ps, n) == IF InMap(ps, n) THEN Lookup(ps, n) ELSE NoProc

\* this step is the exit of child p, the end of its output seen by a reader,
\* or a write to its broken pipe by execute_tool
FailureOf(p) ==
    \/ ChildExit(p)
    \/ \E t \in Pids : reader[t].on = p /\ ReaderEOF(t)
    \/ \E c \in CallIds :
           /\ call[c].st = "idle" /\ call'[c].ret = RaisedWriteError
           /\ InMap(processes, call'[c].name)
           /\ Lookup(processes, call'[c].name) = p

\* nothing of server n changes in this step: its map entry, its process, its
\* pipe, its reader, its calls and their entries in pending_requests
Untouched(n) ==
    /\ Entry(processes', n) = Entry(processes, n)
    /\ \A q \in Pids :
           proc[q].name = n /\ proc[q].st # "none"
               => /\ proc'[q] = proc[q] /\ out'[q] = out[q]
                  /\ reader'[q] = reader[q] /\ transcript'[q] = transcript[q]
    /\ \A c \in CallIds :
           call[c].st # "idle" /\ call[c].name = n
               => /\ call'[c] = call[c]
                  /\ (c \in pending_requests') = (c \in pending_requests)

\* C19: the exit of one server's child process, the end of its output and a
\* write to its broken pipe change nothing of any other server: not the map
\* entry, the process, the pipe or the reader, and no call made on another
\* server (pending or returned) nor its entry in pending_requests.
C19_FailureIsolated ==
    [][\A p \in Pids :
          FailureOf(p) => \A n \in Names \ {proc[p].name} : Untouched(n)]_vars

\* C19 witness: a call on one server waits on a child that has exited and
\* whose end of output has been read, and a call on another server has
\* returned its response
C19_Witness ==
    \E c \in CallIds : \E d \in CallIds :
        /\ call[c].st = "waiting" /\ call[c].fut = FutPending
        /\ proc[call[c].to].st = "dead"
        /\ reader[call[c].to].st = "stopped_eof"
        /\ call[d].name # call[c].name
        /\ call[d].st = "done" /\ call[d].ret[1] = "result"

\* the place of server n in the configuration
Index(n) == CHOOSE i \in 1..Len(ServerOrder) : ServerOrder[i] = n

\* the running or finished pass has gone through server n
Processed(n) == pass.st # "idle" /\ pass.idx > Index(n)

\* the kinds of failure the pass has recorded for server n
Recorded(n) ==
    {pass.errors[i].kind : i \in {j \in 1..Len(pass.errors) : pass.errors[j].server = n}}

\* C12: while refresh_tools runs, the routing table changes at most once, from
\* the complete pre-refresh table to the complete post-refresh table: a step of
\* the refresh that changes tool_map starts from the table as it was when the
\* refresh was called, so that no reader sees an empty or half-filled table in
\* between.
C12_RefreshSwapsTable ==
    [][(pass'.refresh /\ pass'.st # "idle" /\ tool_map' # tool_map)
          => tool_map = pass'.pre]_vars

\* C17: for a server that declares a required environment variable which is
\* unset, check_server_requirements reports ready = false with the variable in
\* missing_env; a discovery pass never calls start_server for it, and once
\* past it has recorded the skip, and nothing else, for it.
C17_MissingEnvSkipped ==
    \A n \in Names :
        (config[n] = "required" /\ environ = "unset")
            => /\ ~check_server_requirements(config, environ, n).ready
               /\ check_server_requirements(config, environ, n).missing_env = <<EnvVar>>
               /\ n \notin pass.called
               /\ Children(n) = {}
               /\ Processed(n) => Recorded(n) = {"missing_env"}

\* C17 witness: a pass has returned; it skipped one server for its unset
\* required variable and called start_server for another
C17_Witness ==
    \E n \in Names :
        /\ PassDone
        /\ config[n] = "required" /\ environ = "unset"
        /\ Recorded(n) = {"missing_env"}
        /\ pass.called = Names \ {n}

\* the servers the pass could not use
FailedServers == {pass.errors[i].server : i \in 1..Len(pass.errors)}

\* C18: when a discovery pass returns (the first one, or a refresh, so that
\* discovered_tools holds this pass's listings only), every configured server
\* has been processed, whatever happened to the others: it has its listing in
\* discovered_tools and its tools in tool_map, or exactly one failure recorded
\* in its name; and the pass has recorded nothing else.
C18_FailuresPerServer ==
    (PassDone /\ (pass.refresh \/ pass.runs = 1))
        => /\ \A n \in Names :
                  IF n \in FailedServers
                  THEN /\ Cardinality({i \in 1..Len(pass.errors) :
                                           pass.errors[i].server = n}) = 1
                       /\ discovered_tools[n].kind # "tools"
                  ELSE /\ discovered_tools[n].kind = "tools"
                       /\ \A t \in discovered_tools[n].tools : tool_map[t] # NoServer
           /\ Len(pass.errors) <= Len(ServerOrder)

\* C18 witness: a pass has returned; the first configured server failed to
\* start and the second one's tools were listed and recorded
C18_Witness ==
    /\ PassDone /\ pass.runs = 1
    /\ Recorded(ServerOrder[1]) = {"failed_start"}
    /\ discovered_tools[ServerOrder[2]].kind = "tools"
    /\ \E t \in ToolNames : tool_map[t] = ServerOrder[2]

\* the (server, tool) pairs of the listings in discovered_tools
Discovered ==
    {<<n, t>> \in Names \X ToolNames :
        discovered_tools[n].kind = "tools" /\ t \in discovered_tools[n].tools}

\* C20: any two distinct discovered (server, tool) pairs have distinct routing
\* keys and distinct display names, and the routing entry of every discovered
\* tool names the server that listed it.
C20_KeysCollisionFree ==
    /\ \A x \in Discovered : \A y \in Discovered \ {x} :
           /\ RoutingKey(x[1], x[2]) # RoutingKey(y[1], y[2])
           /\ DisplayName(x[1], x[2]) # DisplayName(y[1], y[2])
    /\ \A x \in Discovered : tool_map[RoutingKey(x[1], x[2])] = x[1]

\* C13: a tool invocation that was in flight when refresh_tools was called
\* gets its server's response: as long as it waits for it, the refresh does
\* not stop the server it was dispatched to.
C13_InFlightSurvivesRefresh ==
    \A c \in pass.inflight :
        (pass.refresh /\ call[c].st = "waiting" /\ call[c].fut = FutPending)
            => /\ call[c].to \notin Stopping(stops, cleanup)
               /\ proc[call[c].to].st = "live"

\* C21: an invocation of a registered proxy tool whose server is not running
\* (it was started and has been stopped since) starts the server and
\* dispatches the request: it does not come back with the not-running error
C21_ProxyStartsOnDemand ==
    [][\A c \in CallIds :
           /\ call[c].st = "idle"
           /\ call'[c].st = "done"
           /\ call'[c].via # "execute_tool"
           /\ \E p \in Children(call'[c].name) : proc[p].ok
           => Returned(c)' # NotRunning]_vars

\* the payload has an "error" field
HasErrorField(v) ==
    v[1] \in {"error", "error_not_running", "error_timeout", "error_invalid_format",
              "error_proxy", "error_wrapper", "error_start"}

\* C25: whatever goes wrong in the invocation of a proxy tool (server not
\* running, failed start, failed write, timeout, error response, an exception
\* out of execute_tool), the wrapper returns a payload with an "error" field
\* and does not raise; what it returns otherwise is the child's result
C25_FailuresAreErrorPayloads ==
    \A c \in CallIds :
        call[c].via # "execute_tool" /\ call[c].st = "done"
            => /\ ~Raised(Returned(c))
               /\ IF call[c].fut[1] = "result" /\ ~Raised(call[c].ret)
                  THEN Returned(c) = call[c].fut
                  ELSE HasErrorField(Returned(c))

\* an invocation through proxy_tool and one through tool_wrapper are over,
\* execute_tool having raised in one and timed out in the other
C25_Witness ==
    \E c, d \in CallIds :
        /\ call[c].via = "proxy_tool" /\ call[c].st = "done" /\ Raised(call[c].ret)
        /\ call[d].via = "tool_wrapper" /\ call[d].st = "done"
        /\ call[d].ret = TimeoutError

\* C22: every id in pending_requests is the id of an execute_tool call that
\* has sent its request and has not returned yet; a call that has returned or
\* raised, a failed write included, has left no entry behind
C22_PendingHasWaiter ==
    \A c \in pending_requests :
        /\ call[c].st = "waiting"
        /\ \E i \in 1..Len(transcript[call[c].to]) :
               transcript[call[c].to][i] = [ev |-> "tools/call", id |-> c]

\* C23: the pending request of a call made of one server is completed only
\* by a message read from that server's output: a reader that takes a request
\* out of pending_requests reads the output of the child the request was
\* written to
C23_CompletedByOwnServer ==
    [][\A t \in Pids, c \in CallIds :
           /\ ReaderLine(t)
           /\ call[c].st = "waiting"
           /\ c \in pending_requests
           /\ c \notin pending_requests'
           => reader[t].on = call[c].to]_vars

\* C24: every execute_tool call comes to an end by returning the response,
\* the timeout error or the not-running error, whatever the child does
C24_CallReturns ==
    \A c \in CallIds :
        call[c].st = "done"
            => \/ FromResponse(call[c].ret)
               \/ call[c].ret = TimeoutError
               \/ call[c].ret = NotRunning

\* C26: in proxying mode a server that the startup pass has started (the
\* start_server call returned True on a serving child) is still serving
\* afterwards, whatever refresh_tools calls follow
C26_ProxiedServersKeptRunning ==
    \A k \in StartIds :
        starts[k].st = "done" /\ starts[k].good
            => Serving(processes, proc, stops, cleanup, starts[k].name)

\* what the pass has listed for server n
Listed(n) == IF discovered_tools[n].kind = "tools" THEN discovered_tools[n].tools ELSE {}

\* C27: when refresh_tools has completed, tool_map, discovered_tools and
\* tool_schemas hold what the pass of this refresh has discovered and nothing
\* else
C27_RefreshLeavesLatestOnly ==
    PassDone /\ pass.refresh
        => /\ \A n \in Names : tool_schemas[n] \subseteq Listed(n)
           /\ \A n \in Names : discovered_tools[n] # NoListing => Processed(n)
           /\ \A t \in ToolNames : tool_map[t] # NoServer => t \in Listed(tool_map[t])

\* C28: a process start that fails during discovery is tried again before
\* the failure is recorded (and a missing required variable is never tried):
\* when the pass records a failed start for a server, it has called
\* start_server for that server before the call that has just failed, and
\* when it records a missing variable it has not called start_server for it
C28_FailedStartRetried ==
    [][\A i \in 1..Len(pass'.errors) :
           (pass'.runs # pass.runs \/ i > Len(pass.errors))
               => LET e == pass'.errors[i]
                      before == IF pass'.runs = pass.runs THEN pass.called ELSE {}
                  IN  /\ e.kind = "failed_start" => e.server \in before
                      /\ e.kind = "missing_env" => e.server \notin pass'.called]_vars

\* the sum of the tool_count fields of the first k entries
RECURSIVE SumCounts(_, _)
SumCounts(servers, k) ==
    IF k = 0 THEN 0 ELSE servers[k].tool_count + SumCounts(servers, k - 1)

\* C29: in every response of GET /servers/tools every server of the registry
\* appears exactly once, total_servers is the number of entries, every
\* entry's tool_count is the number of its tools and total_tools is the sum
\* of the tool_count fields, also when servers are skipped, fail to start or
\* fail to list their tools
C29_ResponseCountsAgree ==
    \A r \in Requests :
        api[r].st = "done"
            => LET resp == api[r].resp IN
               /\ \A n \in Names :
                      Cardinality({i \in 1..Len(resp.servers) : resp.servers[i].id = n}) = 1
               /\ resp.total_servers = Len(resp.servers)
               /\ \A i \in 1..Len(resp.servers) :
                      resp.servers[i].tool_count = Cardinality(resp.servers[i].tools)
               /\ resp.total_tools = SumCounts(resp.servers, Len(resp.servers))

\* C29 witness: a response in which one server has tools and another, which
\* did not start or did not list its tools, has none
C29_Witness ==
    \E r \in Requests :
        /\ api[r].st = "done"
        /\ api[r].resp.total_tools > 0
        /\ \E i \in 1..Len(api[r].resp.servers) :
               /\ api[r].resp.servers[i].tool_count = 0
               /\ ~ApiMissing(config, environ, api[r].resp.servers[i].id)

\* C30: two passes that run at the same time on the shared manager do not
\* interfere: while a request waits to list the tools of a server whose child
\* it has started itself, no other request's cleanup() is stopping that child
C30_PassesDoNotInterfere ==
    \A r, q \in Requests :
        /\ r # q
        /\ api[r].st \in {"start_sleep", "listing"}
        /\ api[r].pid # NoProc
        => ~(api[q].st = "cleanup" /\ api[q].cl.pinfo = api[r].pid)
====
